---------------------------- MODULE Spec2Model ----------------------------
(***************************************************************************)
(* A model of vs_utils/utils/public_data/__init__.py: the PubChem BioAssay *)
(* JSON parser (PcbaJsonParser) and the summary table built from many      *)
(* documents (PcbaPandasHandler).                                          *)
(*                                                                         *)
(* Encoding of Python values.  A dict is a function whose domain is its    *)
(* set of keys.  A list is a sequence.  A value whose Python type matters  *)
(* to the code, or may differ from one document to the next, is a record   *)
(* tagged with its type: PyStr (a sequence of one-character strings, so    *)
(* that lower(), strip(), join() and `in` can be computed), PyInt, PyFloat,*)
(* PyList, PyDict and PyNone.  A call either returns a value or raises:    *)
(* Return(v), Raise(e).                                                    *)
(***************************************************************************)
EXTENDS Integers, Sequences, FiniteSets, TLC

VARIABLES
  files,    \* the documents on disk: file id -> [ext, tree]
  parser,   \* the PcbaJsonParser instances: file id -> parser state
  ret,      \* outcome of the last method call on each parser
  index,    \* PcbaPandasHandler.index
  df,       \* PcbaPandasHandler.df: the rows, each [label, row], in order
  hret,     \* outcome of the last PcbaPandasHandler method call
  out,      \* what the last to_csv wrote
  added,    \* history: the file ids of the successful add_dataset calls
  keyorder  \* the order in which this interpreter iterates over dict keys

vars == <<files, parser, ret, index, df, hret, out, added, keyorder>>

(***************************************************************************)
(* Python values                                                           *)
(***************************************************************************)
PyNone == [type |-> "NoneType"]
PyStr(s) == [type |-> "str", str |-> s]
PyInt(n) == [type |-> "int", int |-> n]
PyFloat(n, d) == [type |-> "float", num |-> n, den |-> d]
PyList(l) == [type |-> "list", list |-> l]
PyDict(d) == [type |-> "dict", dict |-> d]

Return(v) == [exc |-> "none", val |-> v]
Raise(e) == [exc |-> e]

EmptyDict == <<>>

\* isinstance(v, list)
IsList(v) == v.type = "list"

(***************************************************************************)
(* str.lower, str.strip, str.join and the substring test                   *)
(***************************************************************************)
LowerTable ==
  ("C" :> "c") @@ ("O" :> "o") @@ ("U" :> "u") @@ ("N" :> "n") @@
  ("T" :> "t") @@ ("E" :> "e") @@ ("R" :> "r") @@ ("A" :> "a") @@
  ("B" :> "b") @@ ("S" :> "s") @@ ("X" :> "x")

LowerChar(c) == IF c \in DOMAIN LowerTable THEN LowerTable[c] ELSE c

Lower(s) == [i \in 1..Len(s) |-> LowerChar(s[i])]

Whitespace == {" ", "\t", "\n", "\r"}

RECURSIVE LStrip(_)
LStrip(s) ==
  IF s # <<>> /\ Head(s) \in Whitespace THEN LStrip(Tail(s)) ELSE s

RECURSIVE RStrip(_)
RStrip(s) ==
  IF s # <<>> /\ s[Len(s)] \in Whitespace
  THEN RStrip(SubSeq(s, 1, Len(s) - 1))
  ELSE s

Strip(s) == RStrip(LStrip(s))

RECURSIVE Join(_, _)
Join(sep, lines) ==
  IF lines = <<>> THEN <<>>
  ELSE IF Len(lines) = 1 THEN lines[1]
  ELSE lines[1] \o sep \o Join(sep, Tail(lines))

\* needle in hay
Contains(needle, hay) ==
  \E k \in 0..(Len(hay) - Len(needle)) :
    SubSeq(hay, k + 1, k + Len(needle)) = needle

Counter == <<"c", "o", "u", "n", "t", "e", "r">>
Counterscreen ==
  <<"c", "o", "u", "n", "t", "e", "r", "s", "c", "r", "e", "e", "n">>

\* '\n'.join([line.strip() for line in lines])
JoinStripped(lines) ==
  PyStr(Join(<<"\n">>, [i \in 1..Len(lines) |-> Strip(lines[i].str)]))

(***************************************************************************)
(* PcbaJsonParser.__init__                                                 *)
(***************************************************************************)
HasSubmitDescr(tree) ==
  /\ "PC_AssaySubmit" \in DOMAIN tree
  /\ "assay" \in DOMAIN tree["PC_AssaySubmit"]
  /\ "descr" \in DOMAIN tree["PC_AssaySubmit"]["assay"]

ResolveContainerMissingDescr(tree) ==
  IF "PC_AssayContainer" \notin DOMAIN tree THEN Raise("KeyError")
  ELSE IF Len(tree["PC_AssayContainer"]) # 1 THEN Raise("AssertionError")
  ELSE IF "assay" \notin DOMAIN tree["PC_AssayContainer"][1]
    THEN Raise("KeyError")
  ELSE Return(tree["PC_AssayContainer"][1]["assay"])

ResolveContainerNoLengthCheck(tree) ==
  IF "PC_AssayContainer" \notin DOMAIN tree THEN Raise("KeyError")
  ELSE IF Len(tree["PC_AssayContainer"]) = 0 THEN Raise("IndexError")
  ELSE IF \/ "assay" \notin DOMAIN tree["PC_AssayContainer"][1]
          \/ "descr" \notin DOMAIN tree["PC_AssayContainer"][1]["assay"]
    THEN Raise("KeyError")
  ELSE Return(tree["PC_AssayContainer"][1]["assay"]["descr"])

\* the REST format: just one record per file
ResolveContainer(tree) ==
  IF "PC_AssayContainer" \notin DOMAIN tree THEN Raise("KeyError")
  ELSE IF Len(tree["PC_AssayContainer"]) # 1 THEN Raise("AssertionError")
  ELSE IF \/ "assay" \notin DOMAIN tree["PC_AssayContainer"][1]
          \/ "descr" \notin DOMAIN tree["PC_AssayContainer"][1]["assay"]
    THEN Raise("KeyError")
  ELSE Return(tree["PC_AssayContainer"][1]["assay"]["descr"])

\* move in to the assay description: the FTP format first, else REST
Resolve(tree) ==
  IF HasSubmitDescr(tree)
  THEN Return(tree["PC_AssaySubmit"]["assay"]["descr"])
  ELSE ResolveContainer(tree)

\* PcbaJsonParser(filename): the new object, or the exception raised
PcbaJsonParser(file) ==
  IF file.ext \notin {".gz", ".json"}
  THEN [st |-> "failed", exc |-> "ValueError"]
  ELSE LET r == Resolve(file.tree) IN
       IF r.exc # "none"
       THEN [st |-> "failed", exc |-> r.exc]
       ELSE [st |-> "ok", tree |-> file.tree, root |-> r.val]

(***************************************************************************)
(* The field accessors, over self.root                                     *)
(***************************************************************************)
get_name(root) ==
  IF "name" \in DOMAIN root THEN Return(root["name"]) ELSE Raise("KeyError")

get_aid(root) ==
  IF "aid" \in DOMAIN root /\ "id" \in DOMAIN root["aid"]
  THEN Return(root["aid"]["id"])
  ELSE Raise("KeyError")

get_activity_outcome_method_case_sensitive(root) ==
  IF "activity_outcome_method" \in DOMAIN root
  THEN IF get_name(root).exc # "none" THEN get_name(root)
       ELSE IF Contains(Counter, get_name(root).val.str)
         THEN Return(PyStr(Counterscreen))
       ELSE Return(root["activity_outcome_method"])
  ELSE Return(PyNone)

get_activity_outcome_method(root) ==
  IF "activity_outcome_method" \in DOMAIN root
  THEN IF get_name(root).exc # "none" THEN get_name(root)
       ELSE IF Contains(Counter, Lower(get_name(root).val.str))
         THEN Return(PyStr(Counterscreen))
       ELSE Return(root["activity_outcome_method"])
  ELSE Return(PyNone)

\* a field stored as one string or as a list of lines
JoinedField(root, key) ==
  IF key \notin DOMAIN root THEN Raise("KeyError")
  ELSE IF IsList(root[key]) THEN Return(JoinStripped(root[key].list))
  ELSE Return(root[key])

get_description(root) == JoinedField(root, "description")

get_protocol(root) == JoinedField(root, "protocol")

get_target(root) ==
  IF "target" \in DOMAIN root THEN Return(root["target"]) ELSE Return(PyNone)

get_comment(root) ==
  IF "comment" \in DOMAIN root
  THEN JoinedField(root, "comment")
  ELSE Return(PyNone)

get_results(root) ==
  IF "results" \in DOMAIN root THEN Return(root["results"]) ELSE Return(PyNone)

get_revision(root) ==
  IF "revision" \in DOMAIN root
  THEN Return(root["revision"])
  ELSE Return(PyNone)

(***************************************************************************)
(* PcbaJsonParser.get_data                                                 *)
(*                                                                         *)
(* A result-field definition is [name, tid]; a raw point is a dict whose   *)
(* key "data", when present, holds a list of [tid, value], value a dict    *)
(* from the name of the value variant to the value.  Column names are      *)
(* strings.  A DataFrame is [columns, rows], every row a function on the   *)
(* columns.  The outcome of a call also carries the rows built so far      *)
(* (series), to tell where a failing call stopped.                         *)
(***************************************************************************)
NaN == [type |-> "float", nan |-> TRUE]
DataFrame(columns, rows) ==
  [type |-> "DataFrame", columns |-> columns, rows |-> rows]

Range(s) == {s[k] : k \in DOMAIN s}

\* d.iterkeys(): the keys of d in the interpreter's order of keys
Iterkeys(d, order) == SelectSeq(order, LAMBDA k : k \in DOMAIN d)

\* the generic fields of the first data point
GenericColumns(dp, order) ==
  SelectSeq(Iterkeys(dp, order), LAMBDA k : k # "data")

RECURSIVE AddFieldsUnchecked(_, _, _)
AddFieldsUnchecked(fields, columns, tids) ==
  IF fields = <<>>
  THEN [exc |-> "none", columns |-> columns, tids |-> tids]
  ELSE AddFieldsUnchecked(Tail(fields), Append(columns, Head(fields).name),
                          (Head(fields).tid :> Head(fields).name) @@ tids)

\* for field in self.get_results(): the state after the loop, or at the
\* failure
RECURSIVE AddFields(_, _, _)
AddFields(fields, columns, tids) ==
  IF fields = <<>>
  THEN [exc |-> "none", columns |-> columns, tids |-> tids]
  ELSE IF Head(fields).name \in Range(columns)
    THEN [exc |-> "AssertionError", columns |-> columns, tids |-> tids]
  ELSE AddFields(Tail(fields), Append(columns, Head(fields).name),
                 (Head(fields).tid :> Head(fields).name) @@ tids)

\* the only value of a one-entry dict
OnlyValue(d) == d[CHOOSE k \in DOMAIN d : TRUE]

RECURSIVE AddColsSkipUndeclared(_, _, _)
AddColsSkipUndeclared(cols, tids, point) ==
  IF cols = <<>> THEN [exc |-> "none", point |-> point]
  ELSE IF Head(cols).tid \notin DOMAIN tids
    THEN AddColsSkipUndeclared(Tail(cols), tids, point)
  ELSE IF Cardinality(DOMAIN Head(cols).value) # 1
    THEN [exc |-> "AssertionError", point |-> point]
  ELSE AddColsSkipUndeclared(
         Tail(cols), tids,
         (tids[Head(cols).tid] :> OnlyValue(Head(cols).value)) @@ point)

\* for col in value: the assay-specific fields of one data point
RECURSIVE AddCols(_, _, _)
AddCols(cols, tids, point) ==
  IF cols = <<>> THEN [exc |-> "none", point |-> point]
  ELSE IF Head(cols).tid \notin DOMAIN tids
    THEN [exc |-> "KeyError", point |-> point]
  ELSE IF Cardinality(DOMAIN Head(cols).value) # 1
    THEN [exc |-> "AssertionError", point |-> point]
  ELSE AddCols(Tail(cols), tids,
               (tids[Head(cols).tid] :> OnlyValue(Head(cols).value))
                 @@ point)

\* for key, value in dp.iteritems()
RECURSIVE AddItems(_, _, _, _)
AddItems(keys, dp, tids, point) ==
  IF keys = <<>> THEN [exc |-> "none", point |-> point]
  ELSE IF Head(keys) = "data"
    THEN LET r == AddCols(dp["data"], tids, point) IN
         IF r.exc # "none" THEN r
         ELSE AddItems(Tail(keys), dp, tids, r.point)
  ELSE AddItems(Tail(keys), dp, tids,
                (Head(keys) :> dp[Head(keys)]) @@ point)

RECURSIVE AddPointsReversed(_, _, _, _)
AddPointsReversed(data, tids, order, series) ==
  IF data = <<>> THEN [exc |-> "none", series |-> series]
  ELSE LET r == AddItems(Iterkeys(Head(data), order), Head(data), tids,
                         EmptyDict) IN
       IF r.exc # "none" THEN [exc |-> r.exc, series |-> series]
       ELSE AddPointsReversed(Tail(data), tids, order,
                              <<r.point>> \o series)

\* for dp in data: series.append(point)
RECURSIVE AddPoints(_, _, _, _)
AddPoints(data, tids, order, series) ==
  IF data = <<>> THEN [exc |-> "none", series |-> series]
  ELSE LET r == AddItems(Iterkeys(Head(data), order), Head(data), tids,
                         EmptyDict) IN
       IF r.exc # "none" THEN [exc |-> r.exc, series |-> series]
       ELSE AddPoints(Tail(data), tids, order, Append(series, r.point))

\* the keys of the dicts of a list that are not among the columns
ExtraColumns(columns, series) ==
  UNION {DOMAIN series[k] : k \in DOMAIN series} \ Range(columns)

SetToSeq(S) ==
  CHOOSE q \in [1..Cardinality(S) -> S] : Range(q) = S

\* pd.DataFrame(columns=columns).append(series), series a list of dicts:
\* one row per dict, a missing value NaN; a key that is no column of the
\* frame becomes a new column
DataFrameAppend(columns, series) ==
  LET all == columns \o SetToSeq(ExtraColumns(columns, series)) IN
  DataFrame(all,
            [k \in DOMAIN series |->
               [c \in Range(all) |->
                  IF c \in DOMAIN series[k] THEN series[k][c] ELSE NaN]])

Failed(e, series) == [exc |-> e, series |-> series]

get_data(tree, root, order) ==
  IF \/ "PC_AssaySubmit" \notin DOMAIN tree
     \/ "data" \notin DOMAIN tree["PC_AssaySubmit"]
  THEN [exc |-> "none", val |-> PyNone, series |-> <<>>]
  ELSE LET data == tree["PC_AssaySubmit"]["data"] IN
  IF data = <<>> THEN Failed("IndexError", <<>>)
  ELSE IF get_results(root).val = PyNone THEN Failed("TypeError", <<>>)
  ELSE LET schema == AddFields(get_results(root).val.list,
                               GenericColumns(data[1], order), EmptyDict) IN
  IF schema.exc # "none" THEN Failed(schema.exc, <<>>)
  ELSE LET built == AddPoints(data, schema.tids, order, <<>>) IN
  IF built.exc # "none" THEN built
  ELSE LET frame == DataFrameAppend(schema.columns, built.series) IN
  IF Len(frame.rows) # Len(data) \/ frame.columns # schema.columns
  THEN Failed("AssertionError", built.series)
  ELSE [exc |-> "none", val |-> frame, series |-> built.series]

(***************************************************************************)
(* PcbaPandasHandler                                                       *)
(*                                                                         *)
(* The frame is the sequence of its rows, each [label, row], in the order  *)
(* the frame holds them.  A handler is [index, df]; a call gives the       *)
(* handler after it and the exception it raised ("none": it returned).     *)
(***************************************************************************)
SummaryColumns ==
  <<"name", "aid", "activity_outcome_method", "description", "comment",
    "results", "revision">>

\* self.index = 0; self.df = pd.DataFrame(columns=[...])
NewHandler == [index |-> 0, df |-> <<>>]

\* the calls that fill the row, in the order add_dataset makes them
SummaryCalls(root) ==
  <<get_name(root), get_aid(root), get_activity_outcome_method(root),
    get_description(root), get_comment(root), get_results(root),
    get_revision(root)>>

\* the row add_dataset builds for a file, or the first exception raised
SummaryRow(file) ==
  LET p == PcbaJsonParser(file) IN
  IF p.st = "failed" THEN Raise(p.exc)
  ELSE LET calls == SummaryCalls(p.root)
           bad == {k \in DOMAIN calls : calls[k].exc # "none"}
       IN
       IF bad # {}
       THEN Raise(calls[CHOOSE k \in bad : \A j \in bad : k <= j].exc)
       ELSE Return([k \in Range(SummaryColumns) |->
                      calls[CHOOSE j \in DOMAIN SummaryColumns :
                              SummaryColumns[j] = k].val])

Labels(frame) == {frame[k].label : k \in DOMAIN frame}

\* df.loc[label] = row: the row of that label, a new last row if there is
\* none
LocSetFirst(frame, label, row) ==
  IF label \in Labels(frame)
  THEN [k \in DOMAIN frame |->
          IF frame[k].label = label
          THEN [label |-> label, row |-> row]
          ELSE frame[k]]
  ELSE <<[label |-> label, row |-> row]>> \o frame

LocSet(frame, label, row) ==
  IF label \in Labels(frame)
  THEN [k \in DOMAIN frame |->
          IF frame[k].label = label
          THEN [label |-> label, row |-> row]
          ELSE frame[k]]
  ELSE Append(frame, [label |-> label, row |-> row])

\* df.loc[label]
LocGet(frame, label) ==
  IF label \in Labels(frame)
  THEN Return(frame[CHOOSE k \in DOMAIN frame : frame[k].label = label].row)
  ELSE Raise("KeyError")

add_dataset_no_increment(h, file) ==
  LET r == SummaryRow(file) IN
  IF r.exc # "none"
  THEN [exc |-> r.exc, index |-> h.index, df |-> h.df]
  ELSE [exc |-> "none", index |-> h.index,
        df |-> LocSet(h.df, h.index, r.val)]

add_dataset_counts_failures(h, file) ==
  LET r == SummaryRow(file) IN
  IF r.exc # "none"
  THEN [exc |-> r.exc, index |-> h.index + 1, df |-> h.df]
  ELSE [exc |-> "none", index |-> h.index + 1,
        df |-> LocSet(h.df, h.index, r.val)]

add_dataset(h, file) ==
  LET r == SummaryRow(file) IN
  IF r.exc # "none"
  THEN [exc |-> r.exc, index |-> h.index, df |-> h.df]
  ELSE [exc |-> "none", index |-> h.index + 1,
        df |-> LocSet(h.df, h.index, r.val)]

get_dataset(h, i) == LocGet(h.df, i)

\* self.df.to_csv(out): the header, then a line for each row: its label
\* and its values in the order of the columns
to_csv(h) ==
  <<SummaryColumns>>
    \o [k \in DOMAIN h.df |->
          <<h.df[k].label>>
            \o [c \in DOMAIN SummaryColumns |->
                  h.df[k].row[SummaryColumns[c]]]]

(***************************************************************************)
(* Method calls on a parser                                                *)
(***************************************************************************)
NoCall == [acc |-> "none"]

NoHandler ==
  /\ index = 0
  /\ df = <<>>
  /\ hret = [op |-> "none"]
  /\ out = <<>>
  /\ added = <<>>

HandlerUnchanged == UNCHANGED <<index, df, hret, out, added>>

ParserInit ==
  /\ parser = [i \in DOMAIN files |-> [st |-> "none"]]
  /\ ret = [i \in DOMAIN files |-> NoCall]
  /\ NoHandler

\* parser = PcbaJsonParser(filename)
Construct(i) ==
  /\ parser[i].st = "none"
  /\ parser' = [parser EXCEPT ![i] = PcbaJsonParser(files[i])]
  /\ UNCHANGED <<files, ret, keyorder>>
  /\ HandlerUnchanged

Call(i, acc, res) ==
  /\ parser[i].st = "ok"
  /\ ret' = [ret EXCEPT ![i] = [acc |-> acc, res |-> res]]
  /\ UNCHANGED <<files, parser, keyorder>>
  /\ HandlerUnchanged

GetName(i) == Call(i, "get_name", get_name(parser[i].root))
GetAid(i) == Call(i, "get_aid", get_aid(parser[i].root))
GetActivityOutcomeMethod(i) ==
  Call(i, "get_activity_outcome_method",
       get_activity_outcome_method(parser[i].root))
GetDescription(i) ==
  Call(i, "get_description", get_description(parser[i].root))
GetProtocol(i) == Call(i, "get_protocol", get_protocol(parser[i].root))
GetTarget(i) == Call(i, "get_target", get_target(parser[i].root))
GetComment(i) == Call(i, "get_comment", get_comment(parser[i].root))
GetResults(i) == Call(i, "get_results", get_results(parser[i].root))
GetRevision(i) == Call(i, "get_revision", get_revision(parser[i].root))
GetData(i) ==
  Call(i, "get_data", get_data(parser[i].tree, parser[i].root, keyorder))

Accessors(i) ==
  \/ GetName(i)
  \/ GetAid(i)
  \/ GetActivityOutcomeMethod(i)
  \/ GetDescription(i)
  \/ GetProtocol(i)
  \/ GetTarget(i)
  \/ GetComment(i)
  \/ GetResults(i)
  \/ GetRevision(i)

(***************************************************************************)
(* Documents                                                               *)
(***************************************************************************)
SeqsUpTo(S, n) == UNION {[1..k -> S] : k \in 0..n}

\* an optional key: absent, or present with one of the values
Opt(key, values) == {EmptyDict} \cup {key :> v : v \in values}

SubmitTree(d) == [PC_AssaySubmit |-> [assay |-> [descr |-> d]]]
ContainerTree(ds) ==
  [PC_AssayContainer |-> [k \in 1..Len(ds) |-> [assay |-> [descr |-> ds[k]]]]]

Exts == {".json", ".gz", ".txt"}

PointKeys == <<"sid", "outcome", "data">>

(***************************************************************************)
(* Resolution of the two envelope shapes                                   *)
(***************************************************************************)
MaxContainer == 2

ResolveDescrs ==
  { EmptyDict,
    [name |-> PyStr(<<"a">>), aid |-> [id |-> PyInt(5)]],
    [name |-> PyStr(<<"b">>), aid |-> [id |-> PyInt(7)],
     description |-> PyStr(<<"d">>)] }

\* what may stand where an envelope holds its assay
Envelopes ==
  {EmptyDict, [assay |-> EmptyDict]}
    \cup {[assay |-> [descr |-> d]] : d \in ResolveDescrs}

ResolveTrees ==
  { s @@ c @@ o :
      s \in Opt("PC_AssaySubmit", Envelopes),
      c \in Opt("PC_AssayContainer", SeqsUpTo(Envelopes, MaxContainer)),
      o \in Opt("PC_Other", {EmptyDict}) }

InitResolve ==
  /\ files \in {<<[ext |-> e, tree |-> t]>> : e \in Exts, t \in ResolveTrees}
  /\ keyorder = PointKeys
  /\ ParserInit

NextResolve == \E i \in {1} : Construct(i) \/ Accessors(i)

SpecResolve == InitResolve /\ [][NextResolve]_vars

SubmissionPath(t) ==
  /\ "PC_AssaySubmit" \in DOMAIN t
  /\ "assay" \in DOMAIN t.PC_AssaySubmit
  /\ "descr" \in DOMAIN t.PC_AssaySubmit.assay

ContainerEntries(t) ==
  IF "PC_AssayContainer" \in DOMAIN t THEN Len(t.PC_AssayContainer) ELSE -1

KnownExt(f) == f.ext \in {".json", ".gz"}

\* C1: a constructed parser resolved the submission shape if its path is
\* present, and otherwise the only entry of the container; with no
\* submission path, construction fails and leaves no parser and no record
\* when the container is absent or holds zero or two or more entries.
C1_Resolution ==
  \A i \in DOMAIN files :
    parser[i].st # "none" =>
      LET t == files[i].tree IN
      /\ (KnownExt(files[i]) /\ SubmissionPath(t)) =>
            /\ parser[i].st = "ok"
            /\ parser[i].root = t.PC_AssaySubmit.assay.descr
      /\ (~SubmissionPath(t) /\ ContainerEntries(t) # 1) =>
            /\ parser[i].st = "failed"
            /\ DOMAIN parser[i] = {"st", "exc"}
      /\ ( /\ KnownExt(files[i])
           /\ ~SubmissionPath(t)
           /\ ContainerEntries(t) = 1
           /\ parser[i].st = "ok" ) =>
            parser[i].root = t.PC_AssayContainer[1].assay.descr
      /\ parser[i].st = "ok" =>
            \/ SubmissionPath(t)
            \/ /\ ContainerEntries(t) = 1
               /\ "assay" \in DOMAIN t.PC_AssayContainer[1]
               /\ "descr" \in DOMAIN t.PC_AssayContainer[1].assay

C1_Witness ==
  /\ parser[1].st = "failed"
  /\ parser[1].exc = "AssertionError"
  /\ KnownExt(files[1])
  /\ ~SubmissionPath(files[1].tree)
  /\ "PC_AssaySubmit" \in DOMAIN files[1].tree
  /\ ContainerEntries(files[1].tree) = 2
  /\ files[1].tree.PC_AssayContainer[1] # files[1].tree.PC_AssayContainer[2]
  /\ \A k \in 1..2 :
       /\ "assay" \in DOMAIN files[1].tree.PC_AssayContainer[k]
       /\ "descr" \in DOMAIN files[1].tree.PC_AssayContainer[k].assay

(***************************************************************************)
(* The same assay description in the two shapes                            *)
(***************************************************************************)
Lines == PyList(<<PyStr(<<" ", "a", " ">>), PyStr(<<"b">>)>>)

ShapeDescrs ==
  { n @@ a @@ m @@ d @@ p @@ t @@ c @@ r @@ v :
      n \in Opt("name", {PyStr(<<"C", "o", "u", "n", "t", "e", "r">>)}),
      a \in Opt("aid", {[id |-> PyInt(5)]}),
      m \in Opt("activity_outcome_method", {PyInt(1)}),
      d \in Opt("description", {PyStr(<<"d", " ">>), Lines}),
      p \in Opt("protocol", {PyList(<<PyStr(<<"p", "\t">>)>>)}),
      t \in Opt("target", {PyDict([name |-> PyStr(<<"t">>)])}),
      c \in Opt("comment", {Lines}),
      r \in Opt("results", {PyList(<<[name |-> "a", tid |-> 1]>>)}),
      v \in Opt("revision", {PyInt(3)}) }

InitShape ==
  /\ files \in { <<[ext |-> ".json", tree |-> SubmitTree(d)],
                   [ext |-> ".json", tree |-> ContainerTree(<<d>>)]>> :
                  d \in ShapeDescrs }
  /\ keyorder = PointKeys
  /\ ParserInit

NextShape == \E i \in {1, 2} : Construct(i) \/ Accessors(i)

SpecShape == InitShape /\ [][NextShape]_vars

SameDescription ==
  /\ DOMAIN files[1].tree = {"PC_AssaySubmit"}
  /\ DOMAIN files[2].tree = {"PC_AssayContainer"}
  /\ Len(files[2].tree.PC_AssayContainer) = 1
  /\ files[1].tree.PC_AssaySubmit.assay.descr
       = files[2].tree.PC_AssayContainer[1].assay.descr

\* C2: a submission-shaped and a container-shaped document (one entry)
\* with the same assay description give the same outcome for every field
\* accessor.
C2_ShapeTransparency ==
  ( /\ SameDescription
    /\ parser[1].st # "none"
    /\ parser[2].st # "none" ) =>
      /\ parser[1].st = "ok"
      /\ parser[2].st = "ok"
      /\ (ret[1].acc # "none" /\ ret[1].acc = ret[2].acc) =>
            ret[1].res = ret[2].res

C2_Witness ==
  /\ SameDescription
  /\ parser[1].st = "ok"
  /\ parser[2].st = "ok"
  /\ ret[1].acc = "get_description"
  /\ ret[2].acc = "get_description"
  /\ ret[1].res = Return(PyStr(<<"a", "\n", "b">>))
  /\ ret[2].res = ret[1].res

(***************************************************************************)
(* The counterscreen override                                              *)
(***************************************************************************)
UpperOf ==
  ("c" :> "C") @@ ("o" :> "O") @@ ("u" :> "U") @@ ("n" :> "N") @@
  ("t" :> "T") @@ ("e" :> "E") @@ ("r" :> "R")

CaseVariants(w) ==
  { [j \in 1..Len(w) |-> IF b[j] THEN UpperOf[w[j]] ELSE w[j]] :
      b \in [1..Len(w) -> BOOLEAN] }

NearMisses ==
  { <<>>,
    <<"c", "o", "u", "n", "t", "e">>,
    <<"O", "U", "N", "T", "E", "R">>,
    <<"c", "o", "u", "n", "t", "r", "e">>,
    <<"c", "o", "u", "n", " ", "t", "e", "r">>,
    <<"c", "o", "u", "n", "t", "C", "O", "u", "n", "t", "e", "R">> }

MethodNames ==
  { pre \o core \o post :
      pre \in {<<>>, <<"A", " ">>, <<"c">>},
      core \in CaseVariants(Counter) \cup NearMisses,
      post \in {<<>>, <<"s">>, <<" ", "X">>} }

StoredMethods == {PyInt(1), PyInt(2), PyStr(Counterscreen), PyStr(<<"x">>)}

MethodDescrs ==
  { n @@ m @@ [aid |-> [id |-> PyInt(5)]] :
      n \in Opt("name", {PyStr(w) : w \in MethodNames}),
      m \in Opt("activity_outcome_method", StoredMethods) }

InitMethod ==
  /\ files \in {<<[ext |-> ".json", tree |-> SubmitTree(d)]>> :
                  d \in MethodDescrs}
  /\ keyorder = PointKeys
  /\ ParserInit

NextMethod ==
  \E i \in {1} : Construct(i) \/ GetName(i) \/ GetActivityOutcomeMethod(i)

SpecMethod == InitMethod /\ [][NextMethod]_vars

\* "counter" occurs in s, each letter in either case
AnyCaseCounter(s) ==
  \E k \in 0..(Len(s) - 7) :
    \A j \in 1..7 : s[k + j] \in {Counter[j], UpperOf[Counter[j]]}

MethodCalled(i) ==
  /\ parser[i].st = "ok"
  /\ ret[i].acc = "get_activity_outcome_method"
  /\ "activity_outcome_method" \in DOMAIN parser[i].root
  /\ "name" \in DOMAIN parser[i].root

\* C3: for a record with a stored activity_outcome_method,
\* get_activity_outcome_method returns "counterscreen" when the name
\* contains "counter" in any letter case, and the stored value otherwise.
C3_Counterscreen ==
  \A i \in DOMAIN files :
    MethodCalled(i) =>
      IF AnyCaseCounter(parser[i].root.name.str)
      THEN ret[i].res = Return(PyStr(Counterscreen))
      ELSE ret[i].res = Return(parser[i].root.activity_outcome_method)

C3_Witness ==
  /\ MethodCalled(1)
  /\ parser[1].root.name.str
       = <<"A", " ", "c", "O", "u", "N", "t", "E", "r", "s">>
  /\ parser[1].root.activity_outcome_method = PyInt(2)
  /\ ret[1].res = Return(PyStr(Counterscreen))

(***************************************************************************)
(* Normalisation of the data points                                        *)
(***************************************************************************)
MaxPoints == 2

F(n, t) == [name |-> n, tid |-> t]
E(t, v) == [tid |-> t, value |-> v]

DataResults ==
  { <<>>,
    <<F("a", 1)>>,
    <<F("a", 1), F("b", 2)>>,
    <<F("b", 2), F("a", 1), F("c", 3)>>,
    <<F("a", 1), F("b", 1)>>,
    <<F("a", 1), F("a", 2)>>,
    <<F("sid", 1)>>,
    <<F("a", 1), F("outcome", 2)>> }

OneInt == [ival |-> PyInt(7)]
OneFloat == [fval |-> PyFloat(1, 2)]
TwoValues == [ival |-> PyInt(7), fval |-> PyFloat(1, 2)]

\* the "data" lists of a point; tid 9 is declared by no result field
DataCols ==
  { <<>>,
    <<E(1, OneInt)>>,
    <<E(2, OneFloat)>>,
    <<E(1, OneInt), E(2, OneFloat)>>,
    <<E(1, OneInt), E(1, OneFloat)>>,
    <<E(9, OneInt)>>,
    <<E(1, EmptyDict)>>,
    <<E(1, TwoValues)>> }

GenericFields ==
  { EmptyDict,
    [sid |-> PyInt(10)],
    [sid |-> PyInt(11), outcome |-> PyInt(1)] }

DataPoints == {g @@ c : g \in GenericFields, c \in Opt("data", DataCols)}

DataDescr(r) ==
  [name |-> PyStr(<<"a">>), aid |-> [id |-> PyInt(5)]] @@ r

DataTrees ==
  { [PC_AssaySubmit |-> [assay |-> [descr |-> DataDescr(r)]] @@ d] :
      r \in Opt("results", {PyList(l) : l \in DataResults}),
      d \in Opt("data", SeqsUpTo(DataPoints, MaxPoints)) }
    \cup {ContainerTree(<<DataDescr(r)>>) :
            r \in Opt("results", {PyList(l) : l \in DataResults})}

KeyOrders == {PointKeys, <<"data", "outcome", "sid">>}

InitData ==
  /\ files \in {<<[ext |-> ".json", tree |-> t]>> : t \in DataTrees}
  /\ keyorder \in KeyOrders
  /\ ParserInit

NextData == \E i \in {1} : Construct(i) \/ GetData(i)

SpecData == InitData /\ [][NextData]_vars

\* the raw data points of the document of parser i (none: the empty list)
RawPoints(i) ==
  IF /\ "PC_AssaySubmit" \in DOMAIN parser[i].tree
     /\ "data" \in DOMAIN parser[i].tree.PC_AssaySubmit
  THEN parser[i].tree.PC_AssaySubmit.data
  ELSE <<>>

\* the declared result fields of the record of parser i
Declared(i) ==
  IF "results" \in DOMAIN parser[i].root
  THEN parser[i].root.results.list
  ELSE <<>>

DataCalled(i) ==
  /\ parser[i].st = "ok"
  /\ ret[i].acc = "get_data"
  /\ RawPoints(i) # <<>>

Normalized(i) ==
  /\ DataCalled(i)
  /\ ret[i].res.exc = "none"
  /\ ret[i].res.val # PyNone

GenericKeys(dp) == DOMAIN dp \ {"data"}

\* the result fields are declared, under names that are distinct and no
\* generic key of the first point; every data entry has a declared tid and
\* one value; no point has a key that is no column
WellFormed(i) ==
  /\ "results" \in DOMAIN parser[i].root
  /\ \A j, k \in DOMAIN Declared(i) :
       j # k => Declared(i)[j].name # Declared(i)[k].name
  /\ \A f \in Range(Declared(i)) :
       f.name \notin GenericKeys(RawPoints(i)[1])
  /\ \A n \in DOMAIN RawPoints(i) :
       /\ GenericKeys(RawPoints(i)[n])
            \subseteq GenericKeys(RawPoints(i)[1])
                        \cup {f.name : f \in Range(Declared(i))}
       /\ "data" \in DOMAIN RawPoints(i)[n] =>
            \A e \in Range(RawPoints(i)[n].data) :
              /\ \E f \in Range(Declared(i)) : f.tid = e.tid
              /\ Cardinality(DOMAIN e.value) = 1

\* C4: get_data returns a table for N >= 1 raw points that fit the M
\* declared result fields, and a table it returns has N rows in input
\* order, every row on exactly the declared columns: the generic keys of
\* the first point followed by the M result-field names.
C4_RowsAndColumns ==
  \A i \in DOMAIN files :
    /\ (DataCalled(i) /\ WellFormed(i)) => Normalized(i)
    /\ Normalized(i) =>
      LET table == ret[i].res.val
          data == RawPoints(i)
          fields == Declared(i)
          generic == SelectSeq(keyorder,
                               LAMBDA k : k \in GenericKeys(data[1]))
      IN
      /\ Len(table.rows) = Len(data)
      /\ table.columns = generic \o [k \in 1..Len(fields) |-> fields[k].name]
      /\ Len(table.columns) = Cardinality(GenericKeys(data[1])) + Len(fields)
      /\ Cardinality(Range(table.columns)) = Len(table.columns)
      /\ \A n \in 1..Len(data) :
           /\ DOMAIN table.rows[n] = Range(table.columns)
           /\ \A k \in GenericKeys(data[n]) :
                \/ table.rows[n][k] = data[n][k]
                \/ \E f \in Range(fields) : f.name = k
           /\ \A k \in Range(generic) \ GenericKeys(data[n]) :
                table.rows[n][k] = NaN
           /\ \A f \in Range(fields) :
                \/ table.rows[n][f.name] = NaN
                \/ /\ f.name \in GenericKeys(data[n])
                   /\ table.rows[n][f.name] = data[n][f.name]
                \/ /\ "data" \in DOMAIN data[n]
                   /\ \E e \in Range(data[n].data) :
                        /\ \E g \in Range(fields) :
                             g.tid = e.tid /\ g.name = f.name
                        /\ table.rows[n][f.name] \in Range(e.value)

C4_Witness ==
  /\ Normalized(1)
  /\ Len(RawPoints(1)) = 2
  /\ Len(Declared(1)) = 3
  /\ Len(ret[1].res.val.columns) = 5
  /\ ret[1].res.val.rows[1].a = PyInt(7)
  /\ ret[1].res.val.rows[1].sid = PyInt(11)
  /\ ret[1].res.val.rows[2].sid = PyInt(10)
  /\ ret[1].res.val.rows[2].outcome = NaN
  /\ ret[1].res.val.rows[2].b = PyFloat(1, 2)

\* C5: when a data entry of a raw point carries a tid that no declared
\* result field has, get_data fails and returns no table.
C5_UndeclaredTid ==
  \A i \in DOMAIN files :
    ( /\ DataCalled(i)
      /\ \E n \in DOMAIN RawPoints(i) :
           /\ "data" \in DOMAIN RawPoints(i)[n]
           /\ \E e \in Range(RawPoints(i)[n].data) :
                \A f \in Range(Declared(i)) : f.tid # e.tid ) =>
      /\ ret[i].res.exc # "none"
      /\ "val" \notin DOMAIN ret[i].res

C5_Witness ==
  /\ DataCalled(1)
  /\ ret[1].res.exc = "KeyError"
  /\ Len(ret[1].res.series) = 1
  /\ Len(RawPoints(1)) = 2
  /\ Len(Declared(1)) = 2
  /\ RawPoints(1)[2].data = <<E(9, OneInt)>>

\* C6: when a result-field name is a generic key of the first raw point,
\* or two result fields have the same name, get_data fails while it
\* builds the columns: no row is built and no table returned.
C6_DuplicateColumn ==
  \A i \in DOMAIN files :
    ( /\ DataCalled(i)
      /\ \/ \E f \in Range(Declared(i)) :
              f.name \in GenericKeys(RawPoints(i)[1])
         \/ \E j, k \in DOMAIN Declared(i) :
              j # k /\ Declared(i)[j].name = Declared(i)[k].name ) =>
      /\ ret[i].res.exc = "AssertionError"
      /\ ret[i].res.series = <<>>
      /\ "val" \notin DOMAIN ret[i].res

C6_Witness ==
  /\ DataCalled(1)
  /\ Len(RawPoints(1)) = 2
  /\ Declared(1) = <<F("a", 1), F("a", 2)>>
  /\ RawPoints(1)[1] = [sid |-> PyInt(10)] @@ [data |-> <<E(1, OneInt)>>]
  /\ ret[1].res = Failed("AssertionError", <<>>)

(***************************************************************************)
(* The summary table over many documents                                   *)
(***************************************************************************)
MaxAdds == 3

Assay(name, aid) ==
  [name |-> PyStr(name), aid |-> [id |-> aid],
   description |-> PyStr(<<"d">>)]

HandlerFiles ==
  << [ext |-> ".json",
      tree |-> SubmitTree(Assay(<<"a">>, PyInt(5))
                            @@ [activity_outcome_method |-> PyInt(1),
                                results |-> PyList(<<F("a", 1)>>)])],
     [ext |-> ".json",
      tree |-> ContainerTree(<<[name |-> PyStr(<<"C", "o", "u", "n", "t",
                                                "e", "r">>),
                               aid |-> [id |-> PyInt(7)],
                               activity_outcome_method |-> PyInt(2),
                               description |-> Lines,
                               comment |-> Lines,
                               revision |-> PyInt(3)]>>)],
     [ext |-> ".gz", tree |-> SubmitTree(Assay(<<"b">>, PyInt(9)))],
     [ext |-> ".json", tree |-> SubmitTree(Assay(<<"f">>, PyFloat(15, 2)))],
     [ext |-> ".json",
      tree |-> ContainerTree(<<Assay(<<"a">>, PyInt(5)),
                               Assay(<<"b">>, PyInt(9))>>)],
     [ext |-> ".json", tree |-> [PC_Other |-> EmptyDict]],
     [ext |-> ".json",
      tree |-> SubmitTree([aid |-> [id |-> PyInt(5)],
                           description |-> PyStr(<<"d">>)])],
     [ext |-> ".json",
      tree |-> SubmitTree([name |-> PyStr(<<"a">>),
                           description |-> PyStr(<<"d">>)])],
     [ext |-> ".json",
      tree |-> SubmitTree([name |-> PyStr(<<"a">>),
                           aid |-> [id |-> PyInt(5)]])],
     [ext |-> ".txt", tree |-> SubmitTree(Assay(<<"a">>, PyInt(5)))] >>

Handler == [index |-> index, df |-> df]

InitHandler ==
  /\ files = HandlerFiles
  /\ keyorder = PointKeys
  /\ parser = <<>>
  /\ ret = <<>>
  /\ index = NewHandler.index
  /\ df = NewHandler.df
  /\ hret = [op |-> "none"]
  /\ out = <<>>
  /\ added = <<>>

AddDataset(f) ==
  /\ index < MaxAdds
  /\ LET r == add_dataset(Handler, files[f]) IN
     /\ index' = r.index
     /\ df' = r.df
     /\ hret' = [op |-> "add_dataset", file |-> f, exc |-> r.exc]
     /\ added' = IF r.exc = "none" THEN Append(added, f) ELSE added
  /\ UNCHANGED <<files, parser, ret, out, keyorder>>

GetDataset(i) ==
  /\ hret' = [op |-> "get_dataset", index |-> i,
              res |-> get_dataset(Handler, i)]
  /\ UNCHANGED <<files, parser, ret, index, df, out, added, keyorder>>

ToCsv ==
  /\ out' = to_csv(Handler)
  /\ hret' = [op |-> "to_csv"]
  /\ UNCHANGED <<files, parser, ret, index, df, added, keyorder>>

NextHandler ==
  \/ \E f \in DOMAIN HandlerFiles : AddDataset(f)
  \/ \E i \in -1..(MaxAdds + 1) : GetDataset(i)
  \/ ToCsv

SpecHandler == InitHandler /\ [][NextHandler]_vars

\* the assay description of a document that resolves
Description(file) ==
  IF SubmissionPath(file.tree)
  THEN file.tree.PC_AssaySubmit.assay.descr
  ELSE file.tree.PC_AssayContainer[1].assay.descr

\* the summary row of a document: the outcomes of its seven accessors
ExpectedRow(file) ==
  LET d == Description(file) IN
  [name |-> get_name(d).val,
   aid |-> get_aid(d).val,
   activity_outcome_method |-> get_activity_outcome_method(d).val,
   description |-> get_description(d).val,
   comment |-> get_comment(d).val,
   results |-> get_results(d).val,
   revision |-> get_revision(d).val]

\* C7: after k successful add_dataset calls the table holds k rows in the
\* order of the calls, get_dataset(i) returns the summary row of call i+1
\* for i in 0..k-1, and fails for any other index.
C7_InsertionOrder ==
  /\ Len(df) = Len(added)
  /\ \A k \in DOMAIN added : df[k].row = ExpectedRow(files[added[k]])
  /\ hret.op = "get_dataset" =>
       IF hret.index \in 0..(Len(added) - 1)
       THEN hret.res = Return(ExpectedRow(files[added[hret.index + 1]]))
       ELSE hret.res = Raise("KeyError")
  /\ hret.op = "to_csv" =>
       /\ Len(out) = Len(added) + 1
       /\ \A k \in DOMAIN added :
            out[k + 1][3] = ExpectedRow(files[added[k]]).aid

C7_Witness ==
  /\ added = <<1, 2, 3>>
  /\ \A k \in 1..3 : df[k].row.aid = PyInt(2 * k + 3)
  /\ hret.op = "get_dataset"
  /\ hret.index = 1
  /\ hret.res.exc = "none"
  /\ hret.res.val.aid = PyInt(7)
  /\ hret.res.val.activity_outcome_method = PyStr(Counterscreen)
  /\ hret.res.val.description = PyStr(<<"a", "\n", "b">>)
  /\ Len(out) = 4

IsInteger(v) == v.type = "int"

\* C8: an add_dataset call for a document whose aid is no integer fails,
\* and every aid in the table is an integer.
C8_AidIntegral ==
  /\ \A k \in DOMAIN df : IsInteger(df[k].row.aid)
  /\ ( /\ hret.op = "add_dataset"
       /\ SummaryRow(files[hret.file]).exc = "none"
       /\ ~IsInteger(SummaryRow(files[hret.file]).val.aid) ) =>
         hret.exc # "none"

FailedAdd(r) == r.op = "add_dataset" /\ r.exc # "none"

\* C9: a failing add_dataset call changes neither the rows nor the
\* counter, and a successful one appends its row under the number of
\* successful calls before it, whatever calls failed in between.
C9_FailedAddLeavesTable ==
  [][ /\ FailedAdd(hret') => (df' = df /\ index' = index)
      /\ (hret'.op = "add_dataset" /\ hret'.exc = "none") =>
           df' = Append(df, [label |-> Len(added),
                             row |-> ExpectedRow(files[hret'.file])]) ]_vars

C9_Witness ==
  /\ FailedAdd(hret)
  /\ hret.exc = "AssertionError"
  /\ added = <<3, 1>>
  /\ Len(df) = 2
  /\ index = 2

TableCounted ==
  /\ index = Len(df)
  /\ \A k \in DOMAIN df : df[k].label = k - 1

\* C10: the counter is the number of rows and the labels are 0..index-1,
\* in every state; no step removes a row, and get_dataset and to_csv
\* change neither the rows nor the counter.
C10_CounterAndLabels ==
  /\ []TableCounted
  /\ [][ /\ Len(df') >= Len(df)
         /\ SubSeq(df', 1, Len(df)) = df
         /\ hret'.op \in {"get_dataset", "to_csv"} =>
              (df' = df /\ index' = index) ]_vars

C10_Witness ==
  /\ hret.op = "to_csv"
  /\ index = 3
  /\ Len(df) = 3
  /\ \A k \in 1..3 : df[k].label = k - 1
  /\ Len(out) = 4

=============================================================================
